---- MODULE Spec2Model ----
(***************************************************************************)
(* Model of the send and mass-send handlers of server/routes.ts together   *)
(* with the WalletService / TokenService / CryptoService calls they make   *)
(* and the ledger tables (transactions, mass_send_operations) they write.  *)
(*                                                                         *)
(* Amounts are fixed-point integers: one unit is 0.0001 of the native      *)
(* asset, so 0.001 is 10 units and the fallback fee 0.002 is 20 units.     *)
(* One behaviour is one HTTP request handled from start to response; each  *)
(* action is the code that runs when one awaited call settles.             *)
(*                                                                         *)
(* Spec and SpecOneOwner are that handler model. SpecAmount runs the       *)
(* amount of one wallet through the IEEE-754 doubles of routes.ts:218,     *)
(* SpecVault encrypts and decrypts keys with CryptoService, and SpecConc   *)
(* interleaves two mass-send requests of one user at their awaits.         *)
(* SpecStore follows the wallets and transactions tables through imports,  *)
(* balance refreshes, deletes and record writes, and SpecLookup is one     *)
(* getBalance call on any network a wallet row can carry.                  *)
(***************************************************************************)
EXTENDS Integers, Sequences, FiniteSets, TLC

(* ------------------------------ bounds --------------------------------- *)
\* number of rows in the wallets table
NumWallets == 3
\* longest walletIds array a request body carries
MaxIds == 2
\* how many stored keys may fail to decrypt
MaxCorrupt == 1
\* how many keys are encrypted into the vault
MaxRows == 2
\* how many times stored keys are decrypted
MaxReads == 3
\* how many altered ciphertexts are handed to decrypt
MaxProbes == 1
\* how many wallets are imported into the store
MaxImports == 2
\* how many transfer records the store comes to hold
MaxRecords == 2

(* ------------------------- program constants --------------------------- *)
\* routes.ts:212  parseFloat(balance) > 0.001
Dust == 10
\* routes.ts:218  ... - 0.001
Reserve == 10
\* walletService.ts:157  return "0.002"
FallbackFee == 20

(* --------------------------- the environment --------------------------- *)
Wallets == 1..NumWallets
\* an id that is no row of the wallets table
UnknownId == 0
Users == {"u1", "u2"}
GoodAddress == "0xdest"
BadAddress == "dest"
Addresses == {GoodAddress, BadAddress}
\* live balances the chain may report
Balances == {5, 10, 30, 5000, 20000}
\* 21000 * gasPrice as the fee market may report it
MarketFees == {2, 40}
\* amounts a single-send body may carry
SendAmounts == {100}
None == -1
\* what a provider call yields when the rpc endpoint fails
RpcError == -2

\* ethers.isAddress
isAddress(a) == a = GoodAddress

\* the network column of each imported wallet
NetworkOf(w) ==
  IF w <= 2 THEN "sepolia" ELSE IF w = 3 THEN "goerli" ELSE "polygon_mumbai"

\* the userId column of each imported wallet
OwnerOf(w) == IF w = 1 THEN "u2" ELSE "u1"

\* networkEnum: the networks a wallet row can carry
Networks == {"sepolia", "goerli", "mainnet", "polygon_mumbai", "polygon",
             "bsc_testnet", "bsc", "arbitrum_goerli", "arbitrum",
             "optimism_goerli", "optimism", "avalanche_fuji", "avalanche"}

\* WalletService.getProvider: the networks with an rpc url
rpcUrls == Networks \cup
           {"monad_testnet", "base_sepolia", "base", "fantom_testnet",
            "fantom", "celo_alfajores", "celo", "linea_testnet", "linea"}

\* TokenService.testnetTokens: symbol -> is native (address === null)
testnetTokens(network) ==
  CASE network = "sepolia" ->
         {<<"ETH", TRUE>>, <<"USDT", FALSE>>, <<"USDC", FALSE>>}
    [] network = "goerli" -> {<<"ETH", TRUE>>, <<"USDT", FALSE>>}
    [] network = "polygon_mumbai" ->
         {<<"MATIC", TRUE>>, <<"USDT", FALSE>>, <<"USDC", FALSE>>}
    [] network = "bsc_testnet" -> {<<"BNB", TRUE>>, <<"BUSD", FALSE>>}
    [] network \in {"arbitrum_goerli", "optimism_goerli"} -> {<<"ETH", TRUE>>}
    [] network = "avalanche_fuji" -> {<<"AVAX", TRUE>>}
    [] OTHER -> {}

getTokenBySymbol(network, symbol) ==
  {t \in testnetTokens(network) : t[1] = symbol}

isNativeToken(network, symbol) ==
  \E t \in getTokenBySymbol(network, symbol) : t[2]

VARIABLES
  wallets,          \* wallets table: id -> row
  transactions,     \* transactions table, in creation order
  operations,       \* mass_send_operations table, in creation order
  chain,            \* transfers broadcast to the network, in order
  pc,               \* where the handler is
  req,              \* the request: user and body
  selectedWallets,  \* mass-send: selectedWallets
  idx,              \* mass-send: position of the for loop (1-based)
  totalAmount,      \* mass-send: let totalAmount
  results,          \* mass-send: const results
  local,            \* locals of the current iteration / of single send
  response,         \* what res.status().json() sent
  trace,            \* per wallet: what the handler did with it
  calc,             \* the arithmetic of routes.ts:218 on one balance and fee
  vault,            \* keys encrypted by CryptoService and what decrypt gave
  conc,             \* two mass-send requests interleaving at their awaits
  store,            \* the wallets and transactions tables over many requests
  lookup            \* one call of getBalance as mass-send makes it

\* what the handlers of one request never touch
others == <<calc, vault, conc, store, lookup>>

\* the tables, the network and the handler of the request
handler == <<wallets, transactions, operations, chain, pc, req,
             selectedWallets, idx, totalAmount, results, local, response,
             trace>>

vars == <<handler, others>>

NoLocal == [balance |-> None, keyOk |-> FALSE, gasEstimate |-> None,
            amountToSend |-> None, transaction |-> None, hash |-> None]

NoResponse == [code |-> 0, message |-> "", operationId |-> None,
               totalAmount |-> None, results |-> <<>>, walletsProcessed |-> None]

NoReq == [kind |-> "none", userId |-> "u1", toAddress |-> GoodAddress,
          hasWalletIds |-> FALSE, nullWalletIds |-> FALSE,
          walletIds |-> <<>>,
          fromWalletId |-> UnknownId, amount |-> None]

\* what has happened to one wallet so far: the calls made for it, what they
\* returned, and whether they ran into their catch blocks
NoTrace == [balanceQueries |-> 0, balance |-> None, decrypts |-> 0,
            fee |-> None, submits |-> 0, balanceFailed |-> FALSE,
            feeFailed |-> FALSE, netCalls |-> 0, sendThrows |-> 0]

(* ------------------------------ storage -------------------------------- *)
RECURSIVE RowsDesc(_, _)
RowsDesc(tbl, n) ==
  IF n = 0 THEN <<>>
  ELSE (IF n \in DOMAIN tbl THEN <<tbl[n]>> ELSE <<>>) \o RowsDesc(tbl, n - 1)

\* getUserWallets returning the rows of every user
getUserWallets_EveryUser(userId) == RowsDesc(wallets, NumWallets)

\* storage.getUserWallets: the user's rows, newest first
getUserWallets(userId) ==
  SelectSeq(RowsDesc(wallets, NumWallets), LAMBDA r : r.userId = userId)

\* storage.getWallet: the row with this id and this user, if any
getWallet(id, userId) ==
  {wallets[w] : w \in {x \in DOMAIN wallets : x = id /\ wallets[x].userId = userId}}

\* storage.createTransaction: the table with the new row appended
createTransaction(row) ==
  Append(transactions,
         [id |-> Len(transactions) + 1, userId |-> row.userId, type |-> row.type,
          fromWalletId |-> row.fromWalletId, toAddress |-> row.toAddress,
          amount |-> row.amount, network |-> row.network, status |-> row.status,
          txHash |-> None, errorMessage |-> "", updates |-> 0])

\* storage.updateTransaction: set status, hash and message of row id
updateTransaction(id, status, txHash, errorMessage) ==
  [i \in DOMAIN transactions |->
     IF transactions[i].id = id
     THEN [transactions[i] EXCEPT !.status = status, !.txHash = txHash,
                                  !.errorMessage = errorMessage,
                                  !.updates = @ + 1]
     ELSE transactions[i]]

\* storage.createMassSendOperation
createMassSendOperation(row) ==
  Append(operations,
         [id |-> Len(operations) + 1, userId |-> row.userId,
          toAddress |-> row.toAddress, network |-> row.network,
          totalAmount |-> row.totalAmount, walletsCount |-> row.walletsCount,
          status |-> row.status, updates |-> 0])

\* storage.updateMassSendOperation
updateMassSendOperation(id, total, status) ==
  [i \in DOMAIN operations |->
     IF operations[i].id = id
     THEN [operations[i] EXCEPT !.totalAmount = total, !.status = status,
                                !.updates = @ + 1]
     ELSE operations[i]]

(* --------------------------- WalletService ----------------------------- *)
\* WalletService.getBalance as the handlers call it, the token symbol left to
\* its default; live is what the provider (or, for a token that is not
\* native, the token contract) reports, or RpcError
getBalance(network, live) ==
  IF network \notin rpcUrls THEN 0
  ELSE IF getTokenBySymbol(network, "ETH") = {} THEN 0
  ELSE IF isNativeToken(network, "ETH")
       THEN (IF live = RpcError THEN 0 ELSE live)
       ELSE (IF live = RpcError THEN 0 ELSE live)

\* whether getBalance ran into its catch block (walletService.ts:92-95): the
\* provider could not be built or the balance call failed
balanceLookupFails(network, live) ==
  \/ network \notin rpcUrls
  \/ getTokenBySymbol(network, "ETH") # {} /\ live = RpcError

\* WalletService.estimateGas; market is 21000 * gasPrice, or RpcError
estimateGas(network, market) ==
  IF network \notin rpcUrls \/ market = RpcError THEN FallbackFee ELSE market

\* whether estimateGas ran into its catch block (walletService.ts:155-158)
feeLookupFails(network, market) == network \notin rpcUrls \/ market = RpcError

\* amountToSend without the reserve
amountToSend_NoReserve(balance, gasEstimate) == balance - gasEstimate

\* routes.ts:218  parseFloat(balance) - parseFloat(gasEstimate) - 0.001
amountToSend(balance, gasEstimate) == balance - gasEstimate - Reserve

\* Array.prototype.includes
includes(ids, x) == \E i \in DOMAIN ids : ids[i] = x

\* SelectWallets with an empty walletIds array taken for a missing one
SelectWallets_EmptyMeansAll(allWallets, r) ==
  IF r.hasWalletIds /\ r.walletIds # <<>>
  THEN SelectSeq(allWallets, LAMBDA w : includes(r.walletIds, w.id))
  ELSE allWallets

\* SelectWallets taking one wallet for every listed id, in the order listed
SelectWallets_PerId(allWallets, r) ==
  IF r.hasWalletIds
  THEN LET owned == SelectSeq(r.walletIds,
                              LAMBDA id : \E k \in DOMAIN allWallets :
                                            allWallets[k].id = id) IN
       [i \in DOMAIN owned |->
          allWallets[CHOOSE k \in DOMAIN allWallets :
                       allWallets[k].id = owned[i]]]
  ELSE allWallets

\* SelectWallets selecting nothing when walletIds is missing
SelectWallets_AbsentMeansNone(allWallets, r) ==
  IF r.hasWalletIds
  THEN SelectSeq(allWallets, LAMBDA w : includes(r.walletIds, w.id))
  ELSE <<>>

\* routes.ts:184-186: hasWalletIds is the test "walletIds ?", true of every
\* array, the empty one included, and false of a missing field and of null
SelectWallets(allWallets, r) ==
  IF r.hasWalletIds
  THEN SelectSeq(allWallets, LAMBDA w : includes(r.walletIds, w.id))
  ELSE allWallets

\* aboveDust with the threshold itself let through
aboveDust_Inclusive(balance) == balance >= Dust

\* routes.ts:212  parseFloat(balance) > 0.001
aboveDust(balance) == balance > Dust

(* ---------------------- the doubles of routes.ts:218 ------------------- *)
\* The handler computes the amount in IEEE-754 doubles:
\*   (parseFloat(balance) - parseFloat(gasEstimate) - 0.001).toString()
\* A natural number is held as the sequence of its digits to the base
\* 2^LimbBits, least significant first and without leading zeros; a double
\* is a sign and a magnitude, the magnitude being the natural |v| * 2^Grid.
\* Decimal strings are counted in millionths of the native asset.

\* binary digits of one digit of a natural number
LimbBits == 11
\* binary places kept: every double met here is a multiple of 2^-Grid
Grid == 88
\* binary digits of the significand of a double
Significand == 53
\* decimal places of a decimal string counted in millionths
MicroPlaces == 6

Base == 2^LimbBits
Max(a, b) == IF a > b THEN a ELSE b

RECURSIVE Limbs(_)
Limbs(n) == IF n = 0 THEN <<>> ELSE <<n % Base>> \o Limbs(n \div Base)

Limb(x, i) == IF i \in DOMAIN x THEN x[i] ELSE 0

Norm(x) ==
  LET used == {i \in DOMAIN x : x[i] # 0} IN
    IF used = {} THEN <<>>
    ELSE SubSeq(x, 1, CHOOSE i \in used : \A j \in used : j <= i)

\* x + y
RECURSIVE AddFrom(_, _, _, _)
AddFrom(x, y, i, c) ==
  IF i > Max(Len(x), Len(y)) THEN Limbs(c)
  ELSE LET t == Limb(x, i) + Limb(y, i) + c
       IN <<t % Base>> \o AddFrom(x, y, i + 1, t \div Base)

Add(x, y) == AddFrom(x, y, 1, 0)

\* x - y for x >= y
RECURSIVE SubFrom(_, _, _, _)
SubFrom(x, y, i, b) ==
  IF i > Len(x) THEN <<>>
  ELSE LET t == x[i] - Limb(y, i) - b
       IN <<(t + Base) % Base>>
          \o SubFrom(x, y, i + 1, IF t < 0 THEN 1 ELSE 0)

Sub(x, y) == Norm(SubFrom(x, y, 1, 0))

Less(x, y) ==
  LET differ == {i \in 1..Max(Len(x), Len(y)) : Limb(x, i) # Limb(y, i)} IN
    /\ differ # {}
    /\ LET top == CHOOSE i \in differ : \A j \in differ : j <= i
       IN Limb(x, top) < Limb(y, top)

\* x * m for a small factor m
RECURSIVE MulFrom(_, _, _, _)
MulFrom(x, m, i, c) ==
  IF i > Len(x) THEN Limbs(c)
  ELSE LET t == x[i] * m + c
       IN <<t % Base>> \o MulFrom(x, m, i + 1, t \div Base)

MulSmall(x, m) == MulFrom(x, m, 1, 0)

\* quotient and remainder of x by a small divisor d
RECURSIVE DivFrom(_, _, _, _)
DivFrom(x, d, i, r) ==
  IF i = 0 THEN [q |-> <<>>, r |-> r]
  ELSE LET t == r * Base + x[i]
           low == DivFrom(x, d, i - 1, t % d)
       IN [q |-> Append(low.q, t \div d), r |-> low.r]

DivSmall(x, d) ==
  LET a == DivFrom(x, d, Len(x), 0) IN [q |-> Norm(a.q), r |-> a.r]

\* the binary digit of x at place i, the lowest place being 1
BitAt(x, i) ==
  (Limb(x, (i - 1) \div LimbBits + 1) \div 2^((i - 1) % LimbBits)) % 2

\* the number of binary digits of x
BitLen(x) ==
  IF x = <<>> THEN 0
  ELSE LET places == {i \in 1..(Len(x) * LimbBits) : BitAt(x, i) = 1}
       IN CHOOSE i \in places : \A j \in places : j <= i

\* x * 2^s
ShiftLeft(x, s) ==
  IF x = <<>> THEN <<>>
  ELSE [i \in 1..(s \div LimbBits) |-> 0] \o MulSmall(x, 2^(s % LimbBits))

\* the digits of x from binary place s + 1 upwards: x \div 2^s
RECURSIVE LimbAbove(_, _, _)
LimbAbove(x, s, k) ==
  IF k = 0 THEN 0 ELSE 2 * LimbAbove(x, s + 1, k - 1) + BitAt(x, s + 1)

ShiftRight(x, s) ==
  Norm([j \in 1..Len(x) |-> LimbAbove(x, s + LimbBits * (j - 1), LimbBits)])

\* round to nearest, ties to even, to Significand binary digits; inexact says
\* that x was already cut off below its last digit
RoundToDouble(x, inexact) ==
  IF BitLen(x) <= Significand THEN x
  ELSE LET drop == BitLen(x) - Significand
           kept == ShiftRight(x, drop)
           half == BitAt(x, drop) = 1
           more == inexact \/ \E i \in 1..(drop - 1) : BitAt(x, i) = 1
           up == half /\ (more \/ BitAt(kept, 1) = 1)
       IN ShiftLeft(IF up THEN Add(kept, <<1>>) ELSE kept, drop)

Double(neg, mag) == [neg |-> neg /\ mag # <<>>, mag |-> mag]

\* parseFloat of the decimal string that reads n millionths (n may be
\* negative): the double nearest to n / 10^6
parseFloat(n) ==
  LET a == DivSmall(ShiftLeft(Limbs(IF n < 0 THEN 0 - n ELSE n), Grid),
                    10^MicroPlaces)
  IN Double(n < 0, RoundToDouble(a.q, a.r # 0))

\* the operator - on doubles: the exact difference, rounded
minus(a, b) ==
  IF a.neg # b.neg
  THEN Double(a.neg, RoundToDouble(Add(a.mag, b.mag), FALSE))
  ELSE IF Less(a.mag, b.mag)
  THEN Double(~a.neg, RoundToDouble(Sub(b.mag, a.mag), FALSE))
  ELSE Double(a.neg, RoundToDouble(Sub(a.mag, b.mag), FALSE))

\* routes.ts:218 on doubles, balance and gasEstimate read in millionths
amountDouble(balance, gasEstimate) ==
  minus(minus(parseFloat(balance), parseFloat(gasEstimate)), parseFloat(1000))

\* Number.prototype.toString prints the shortest decimal that reads back as
\* the same double, so a double prints as a decimal of at most fifteen
\* digits exactly when that decimal reads back as it
printsAs(v, n) == v = parseFloat(n)

\* the double nearest to w / 10^18, w a natural number of wei
fromWei(w) ==
  LET a == DivSmall(ShiftLeft(w, Grid), 10^MicroPlaces)
      b == DivSmall(a.q, 10^MicroPlaces)
      c == DivSmall(b.q, 10^MicroPlaces)
  IN RoundToDouble(c.q, a.r # 0 \/ b.r # 0 \/ c.r # 0)

\* the whole wei below |v| * 10^18
weiBelow(v) ==
  ShiftRight(MulSmall(MulSmall(MulSmall(v.mag, 10^MicroPlaces),
                               10^MicroPlaces), 10^MicroPlaces), Grid)

\* ethers.parseEther takes a decimal string of at most 18 decimal places:
\* whether v.toString() is one, i.e. whether some whole number of wei reads
\* back as v
parseEtherAccepts(v) ==
  /\ ~v.neg
  /\ \/ fromWei(weiBelow(v)) = v.mag
     \/ fromWei(Add(weiBelow(v), <<1>>)) = v.mag

(* ------------- the amount of one wallet, step by step ------------------ *)
\* The body of the mass-send loop for one wallet (routes.ts:210-239) as far
\* as it handles numbers, on the doubles the code uses. balance and
\* gasEstimate are the decimal strings of getBalance and estimateGas, in
\* millionths; amount is the double whose toString() is amountToSend.

\* balances in millionths: 0.0005, 0.001, 0.003, 0.0031, 0.0035, 0.01, 0.05,
\* 0.1, 0.25, 0.5, 1.0 and 2.0
CalcBalances == {500, 1000, 3000, 3100, 3500, 10000, 50000, 100000, 250000,
                 500000, 1000000, 2000000}
\* fee estimates in millionths: 21000 gas at 1, 10, 100 and 200 gwei, and
\* the fallback 0.002
CalcFees == {21, 210, 2100, 4200, 2000}

NoCalc == [stage |-> "none", balance |-> None, gasEstimate |-> None,
           amount |-> Double(FALSE, <<>>)]

\* a > b on doubles
greater(a, b) ==
  IF a.neg # b.neg THEN b.neg
  ELSE IF a.neg THEN Less(a.mag, b.mag) ELSE Less(b.mag, a.mag)

\* routes.ts:210-212  parseFloat(balance) > 0.001
AM_GetBalance ==
  /\ calc.stage = "balance"
  /\ calc' = [calc EXCEPT !.stage =
                IF greater(parseFloat(calc.balance), parseFloat(1000))
                THEN "estimate" ELSE "skipped"]
  /\ UNCHANGED <<handler, vault, conc, store, lookup>>

\* routes.ts:217-220  the fee estimate, amountToSend and its sign
AM_EstimateGas ==
  /\ calc.stage = "estimate"
  /\ \E gasEstimate \in CalcFees :
       LET amount == amountDouble(calc.balance, gasEstimate) IN
         calc' = [calc EXCEPT !.gasEstimate = gasEstimate,
                              !.amount = amount,
                              !.stage =
                                IF greater(amount, parseFloat(0))
                                THEN "record" ELSE "skipped"]
  /\ UNCHANGED <<handler, vault, conc, store, lookup>>

\* routes.ts:222-231  the record is created with the string amountToSend
AM_CreateTransaction ==
  /\ calc.stage = "record"
  /\ calc' = [calc EXCEPT !.stage = "send"]
  /\ UNCHANGED <<handler, vault, conc, store, lookup>>

\* walletService.ts:117-119  ethers.parseEther(amount) inside sendTransaction
AM_SendTransaction ==
  /\ calc.stage = "send"
  /\ calc' = [calc EXCEPT !.stage =
                IF parseEtherAccepts(calc.amount) THEN "submitted"
                ELSE "thrown"]
  /\ UNCHANGED <<handler, vault, conc, store, lookup>>

NextAmount ==
  \/ AM_GetBalance
  \/ AM_EstimateGas
  \/ AM_CreateTransaction
  \/ AM_SendTransaction

(* ---------------------------- CryptoService --------------------------- *)
\* A ciphertext string is held as the sequence of its colon-separated parts
\* (the parts are hex, so joining and splitting lose nothing). The cipher is
\* symbolic: createCipher(ALGORITHM, ENCRYPTION_KEY) derives key and nonce
\* from the one password, so body and tag are functions of the text alone.

\* raw private keys
RawKeys == {"k1", "k2"}
\* values of crypto.randomBytes(16)
IVs == {"iv1", "iv2", "iv3"}

\* cipher.update(text, "utf8", "hex") + cipher.final("hex")
cipherBody(text) == <<"aes-256-gcm", text>>
\* the length in bytes of a GCM tag as getAuthTag returns it
TagBytes == 16
\* cipher.getAuthTag() after final: the tag of this text, at full length
authTag(text) == [of |-> text, bytes |-> TagBytes]
\* the tag lengths decipher.setAuthTag takes when createDecipher was given
\* no authTagLength
validTagLength(n) == n \in {4, 8, 12, 13, 14, 15, 16}

\* encrypt writing the same nonce into every ciphertext
encrypt_FixedIv(text, iv) == <<"iv1", authTag(text), cipherBody(text)>>

\* CryptoService.encrypt, iv being what randomBytes returned
encrypt(text, iv) == <<iv, authTag(text), cipherBody(text)>>

\* what decrypt yields when it throws
DecryptError == "unable to authenticate data"

\* CryptoService.decrypt: parts[0] is read and not used and parts beyond
\* the third are not read; Buffer.from and decipher.update throw on a
\* missing part, setAuthTag on a tag of a length it does not take, and
\* decipher.final on a tag that is not the leading bytes of the body's tag
decrypt(parts) ==
  IF Len(parts) < 3 THEN DecryptError
  ELSE IF ~validTagLength(parts[2].bytes) THEN DecryptError
  ELSE IF \E text \in RawKeys :
            parts[3] = cipherBody(text) /\ parts[2].of = text
  THEN CHOOSE text \in RawKeys : parts[3] = cipherBody(text)
  ELSE DecryptError

\* ways in which a stored ciphertext string can differ from what encrypt
\* wrote: parts cut off, the tag or the body changed, the tag shortened or
\* emptied, the first part emptied, a part added
Alterations == {"one_part", "two_parts", "tag_changed", "tag_shortened",
                "tag_emptied", "body_changed", "iv_emptied", "part_added"}

\* the ciphertext data after the alteration how
alter(data, how) ==
  CASE how = "one_part" -> <<data[1]>>
    [] how = "two_parts" -> <<data[1], data[2]>>
    [] how = "tag_changed" -> [data EXCEPT ![2].of = "changed"]
    [] how = "tag_shortened" -> [data EXCEPT ![2].bytes = 4]
    [] how = "tag_emptied" -> [data EXCEPT ![2].bytes = 0]
    [] how = "body_changed" -> [data EXCEPT ![3] = cipherBody("changed")]
    [] how = "iv_emptied" -> [data EXCEPT ![1] = ""]
    [] how = "part_added" -> data \o <<"00">>

EmptyVault == [rows |-> <<>>, used |-> {}, reads |-> <<>>, probes |-> <<>>]

\* WalletService.encryptPrivateKey(key) with 16 random bytes, taken not to
\* repeat, and the ciphertext stored (routes.ts:66-76)
V_Encrypt ==
  /\ Len(vault.rows) < MaxRows
  /\ \E key \in RawKeys, iv \in IVs \ vault.used :
       vault' = [vault EXCEPT
                   !.rows = Append(@, [key |-> key, data |-> encrypt(key, iv)]),
                   !.used = @ \cup {iv}]
  /\ UNCHANGED <<handler, calc, conc, store, lookup>>

\* WalletService.decryptPrivateKey(wallet.encryptedPrivateKey) on a stored row
V_Decrypt ==
  /\ Len(vault.reads) < MaxReads
  /\ \E i \in DOMAIN vault.rows :
       vault' = [vault EXCEPT
                   !.reads = Append(@, [row |-> i,
                                        out |-> decrypt(vault.rows[i].data)])]
  /\ UNCHANGED <<handler, calc, conc, store, lookup>>

\* CryptoService.decrypt on a stored ciphertext that was altered
V_DecryptAltered ==
  /\ Len(vault.probes) < MaxProbes
  /\ \E i \in DOMAIN vault.rows, how \in Alterations :
       LET data == alter(vault.rows[i].data, how) IN
       vault' = [vault EXCEPT
                   !.probes = Append(@, [how |-> how, data |-> data,
                                         out |-> decrypt(data)])]
  /\ UNCHANGED <<handler, calc, conc, store, lookup>>

NextVault ==
  \/ V_Encrypt
  \/ V_Decrypt
  \/ V_DecryptAltered

\* every sequence over S of length at most n
SeqsUpTo(S, n) == UNION {[1..k -> S] : k \in 0..n}

(* ------------------------ one balance lookup --------------------------- *)
\* WalletService.getBalance(wallet.address, wallet.network) for a wallet on
\* any network of networkEnum

NoLookup == [stage |-> "none", network |-> "sepolia", live |-> None,
             out |-> None]

\* getBalance settles with the string it returns
GB_Settle ==
  /\ lookup.stage = "asked"
  /\ lookup' = [lookup EXCEPT !.stage = "answered",
                              !.out = getBalance(lookup.network, lookup.live)]
  /\ UNCHANGED <<handler, calc, vault, conc, store>>

NextLookup == GB_Settle

(* ------------------- the wallet store over requests -------------------- *)
\* The wallets and transactions tables as the API's handlers leave them,
\* request after request. A wallet's id is the number of its import; ids
\* are never given twice.

\* balances the network reports
StoreBalances == {0, 5000}
\* values of crypto.randomBytes(16) at import
StoreIVs == {"iv1"}

\* WalletService.getAddressFromPrivateKey: new ethers.Wallet(key).address
getAddressFromPrivateKey(privateKey) == <<"address", privateKey>>

\* wallets       the rows of the wallets table
\* transactions  the rows of the transactions table, oldest first
\* imports       how many wallets were ever created
\* imported      per wallet id, the address and key its import stored
\* written      per transfer record, what create and update wrote into it
EmptyStore == [wallets |-> {}, transactions |-> <<>>, imports |-> 0,
               imported |-> <<>>, written |-> <<>>]

\* the ids in the wallets table ws
idsOf(ws) == {w.id : w \in ws}

\* updateWalletBalance overwriting the address column as well
updateWalletBalance_SetsAddress(ws, id, balance) ==
  {IF w.id = id THEN [w EXCEPT !.balance = balance,
                               !.address =
                                 getAddressFromPrivateKey("other")]
   ELSE w : w \in ws}

\* storage.updateWalletBalance: the wallets table afterwards
updateWalletBalance(ws, id, balance) ==
  {IF w.id = id THEN [w EXCEPT !.balance = balance] ELSE w : w \in ws}

\* storage.deleteWallet: the wallets table afterwards
deleteWallet(ws, id, userId) ==
  {w \in ws : ~(w.id = id /\ w.userId = userId)}

\* the foreign key of transactions.fromWalletId deleting the referring rows
onDeleteSetNull_Cascade(txs, ws) ==
  SelectSeq(txs, LAMBDA t : t.fromWalletId \in idsOf(ws) \cup {None})

\* the foreign key of transactions.fromWalletId, onDelete "set null": the
\* transactions table once the wallets table has become ws
onDeleteSetNull(txs, ws) ==
  [i \in DOMAIN txs |->
     IF txs[i].fromWalletId \in idsOf(ws) \cup {None} THEN txs[i]
     ELSE [txs[i] EXCEPT !.fromWalletId = None]]

\* POST /api/wallets (routes.ts:52-89): the key is checked, the address
\* derived, the key encrypted, the row inserted and its balance written
ST_Import ==
  /\ store.imports < MaxImports
  /\ \E u \in Users, key \in RawKeys, iv \in StoreIVs,
        balance \in StoreBalances :
       LET id == store.imports + 1
           row == [id |-> id, userId |-> u,
                   address |-> getAddressFromPrivateKey(key),
                   encryptedPrivateKey |-> encrypt(key, iv),
                   balance |-> 0] IN
       store' = [store EXCEPT
                   !.wallets = updateWalletBalance(@ \cup {row}, id, balance),
                   !.imports = id,
                   !.imported = Append(@, [address |-> row.address,
                                           encryptedPrivateKey |->
                                             row.encryptedPrivateKey,
                                           balance |-> balance])]
  /\ UNCHANGED <<handler, calc, vault, conc, lookup>>

\* GET /api/wallets (routes.ts:26-50): the balance of one of the user's
\* wallets is looked up and written
ST_Refresh ==
  /\ \E w \in store.wallets, balance \in StoreBalances :
       /\ balance # w.balance
       /\ store' = [store EXCEPT
                      !.wallets = updateWalletBalance(@, w.id, balance)]
  /\ UNCHANGED <<handler, calc, vault, conc, lookup>>

\* DELETE /api/wallets/:id (routes.ts:91-102) by any user for any id
ST_Delete ==
  /\ \E u \in Users, id \in 1..MaxImports :
       LET ws == deleteWallet(store.wallets, id, u) IN
       /\ ws # store.wallets
       /\ store' = [store EXCEPT
                      !.wallets = ws,
                      !.transactions = onDeleteSetNull(@, ws)]
  /\ UNCHANGED <<handler, calc, vault, conc, lookup>>

\* storage.createTransaction as send (routes.ts:131-140) and mass-send
\* (routes.ts:222-231) call it, for a wallet the handler has read
ST_CreateTransaction ==
  /\ Len(store.transactions) < MaxRecords
  /\ \E w \in store.wallets, type \in {"send", "mass_send"} :
       LET row == [userId |-> w.userId, type |-> type,
                   fromWalletId |-> w.id, toAddress |-> GoodAddress,
                   amount |-> 100, status |-> "pending", txHash |-> None] IN
       store' = [store EXCEPT !.transactions = Append(@, row),
                              !.written = Append(@, row)]
  /\ UNCHANGED <<handler, calc, vault, conc, lookup>>

\* storage.updateTransaction as send (routes.ts:151-165) and mass-send
\* (routes.ts:242-247) call it on the record they created
ST_UpdateTransaction ==
  /\ \E i \in DOMAIN store.transactions :
       /\ store.transactions[i].status = "pending"
       /\ \/ store' = [store EXCEPT
                         !.transactions[i].status = "confirmed",
                         !.transactions[i].txHash = i,
                         !.written[i].status = "confirmed",
                         !.written[i].txHash = i]
          \/ /\ store.transactions[i].type = "send"
             /\ store' = [store EXCEPT
                            !.transactions[i].status = "failed",
                            !.written[i].status = "failed"]
  /\ UNCHANGED <<handler, calc, vault, conc, lookup>>

NextStore ==
  \/ ST_Import
  \/ ST_Refresh
  \/ ST_Delete
  \/ ST_CreateTransaction
  \/ ST_UpdateTransaction

(* ------------------- two mass-send requests at once -------------------- *)
\* Node runs each handler until its next await; what follows an await runs
\* when the awaited call has settled, in whatever order the calls settle.
\* One action below is one such run of one request.

\* the two requests, both sent by the same user
Requests == {"a", "b"}
Sender == "u1"

\* a request that has not arrived
NoRequest == [pc |-> "idle", selectedWallets |-> <<>>, idx |-> 0,
              transaction |-> None, results |-> <<>>, open |-> {}]

\* rows      the transactions table, a row's id being its position
\* flying    ids of the rows whose sendTransaction call has not settled
\* mempool   ids of the rows in the order their transfers were broadcast
NoConc == [at |-> [r \in Requests |-> NoRequest], rows |-> <<>>,
           flying |-> {}, mempool |-> <<>>]

\* the request after the loop body of its current wallet, about to await
\* getBalance for the next wallet or the update of its operation record
Advance(a) ==
  LET n == a.idx + 1
      left == a.open \ {a.selectedWallets[a.idx].id} IN
  IF n <= Len(a.selectedWallets)
  THEN [a EXCEPT !.idx = n, !.pc = "getBalance", !.transaction = None,
                 !.open = left \cup {a.selectedWallets[n].id}]
  ELSE [a EXCEPT !.idx = n, !.pc = "finalize", !.transaction = None,
                 !.open = left]

\* the catch block of the loop body (routes.ts:258-266), then the next wallet
Caught(a) ==
  Advance([a EXCEPT !.results =
             Append(@, [walletId |-> a.selectedWallets[a.idx].id,
                        status |-> "failed"])])

\* routes.ts:179-209: wallets selected, operation record created, and the
\* loop entered up to the await of getBalance for the first wallet
CM_Start(r) ==
  /\ conc.at[r].pc = "idle"
  /\ \E ids \in SeqsUpTo(Wallets, MaxIds) :
       LET selected == SelectWallets(getUserWallets(Sender),
                                     [NoReq EXCEPT !.hasWalletIds = TRUE,
                                                   !.walletIds = ids]) IN
       /\ Len(selected) > 0
       /\ conc' = [conc EXCEPT !["at"][r] =
                     [NoRequest EXCEPT !.pc = "getBalance",
                                       !.selectedWallets = selected,
                                       !.idx = 1,
                                       !.open = {selected[1].id}]]
  /\ UNCHANGED <<handler, calc, vault, store, lookup>>

\* getBalance settles (routes.ts:210-217): dust ends the wallet's turn
CM_GetBalance(r) ==
  /\ conc.at[r].pc = "getBalance"
  /\ \E balance \in {Dust, 5000} :
       conc' = [conc EXCEPT !["at"][r] =
                  IF aboveDust(balance) THEN [@ EXCEPT !.pc = "estimateGas"]
                  ELSE Advance(@)]
  /\ UNCHANGED <<handler, calc, vault, store, lookup>>

\* estimateGas settles (routes.ts:217-222) and createTransaction is called
CM_EstimateGas(r) ==
  /\ conc.at[r].pc = "estimateGas"
  /\ conc' = [conc EXCEPT !["at"][r].pc = "createTransaction"]
  /\ UNCHANGED <<handler, calc, vault, store, lookup>>

\* createTransaction settles with the new row (routes.ts:222-239) and
\* sendTransaction is called (walletService.ts:105-106), which awaits its
\* signer and then getFeeData before it broadcasts
CM_CreateTransaction(r) ==
  /\ conc.at[r].pc = "createTransaction"
  /\ LET a == conc.at[r]
         id == Len(conc.rows) + 1 IN
     conc' = [conc EXCEPT
                !.rows = Append(@, [request |-> r,
                                    fromWalletId |-> a.selectedWallets[a.idx].id,
                                    status |-> "pending"]),
                !.flying = @ \cup {id},
                !["at"][r] = [a EXCEPT !.pc = "getFeeData",
                                       !.transaction = id]]
  /\ UNCHANGED <<handler, calc, vault, store, lookup>>

\* CM_Broadcast going on to the next wallet without awaiting the call
CM_Broadcast_NotAwaited(r) ==
  /\ conc.at[r].pc = "getFeeData"
  /\ conc' = [conc EXCEPT
                !.mempool = Append(@, conc.at[r].transaction),
                !["at"][r] = Advance(@)]
  /\ UNCHANGED <<handler, calc, vault, store, lookup>>

\* getFeeData settles inside sendTransaction (walletService.ts:106-126): the
\* transfer is broadcast and tx.wait() awaited, or the call throws into the
\* catch block of the loop body
CM_Broadcast(r) ==
  /\ conc.at[r].pc = "getFeeData"
  /\ LET a == conc.at[r] IN
     \/ conc' = [conc EXCEPT !.mempool = Append(@, a.transaction),
                             !["at"][r].pc = "wait"]
     \/ conc' = [conc EXCEPT !.flying = @ \ {a.transaction},
                             !["at"][r] = Caught(a)]
  /\ UNCHANGED <<handler, calc, vault, store, lookup>>

\* tx.wait() settles (walletService.ts:127-136): sendTransaction returns and
\* updateTransaction is called, or it throws into the catch block
CM_Receipt(r) ==
  /\ conc.at[r].pc = "wait"
  /\ LET a == conc.at[r] IN
     \/ conc' = [conc EXCEPT !.flying = @ \ {a.transaction},
                             !["at"][r].pc = "updateTransaction"]
     \/ conc' = [conc EXCEPT !.flying = @ \ {a.transaction},
                             !["at"][r] = Caught(a)]
  /\ UNCHANGED <<handler, calc, vault, store, lookup>>

\* updateTransaction settles (routes.ts:242-257): the result is pushed and
\* the loop goes on
CM_UpdateTransaction(r) ==
  /\ conc.at[r].pc = "updateTransaction"
  /\ LET a == conc.at[r] IN
     \/ conc' = [conc EXCEPT
                   !.rows[a.transaction].status = "confirmed",
                   !["at"][r] =
                     Advance([a EXCEPT !.results =
                        Append(@, [walletId |-> a.selectedWallets[a.idx].id,
                                   status |-> "confirmed"])])]
     \/ conc' = [conc EXCEPT !["at"][r] = Caught(a)]
  /\ UNCHANGED <<handler, calc, vault, store, lookup>>

\* updateMassSendOperation settles and the response is sent
\* (routes.ts:269-281)
CM_Finalize(r) ==
  /\ conc.at[r].pc = "finalize"
  /\ conc' = [conc EXCEPT !["at"][r].pc = "done"]
  /\ UNCHANGED <<handler, calc, vault, store, lookup>>

NextConc ==
  \E r \in Requests :
    \/ CM_Start(r)
    \/ CM_GetBalance(r)
    \/ CM_EstimateGas(r)
    \/ CM_CreateTransaction(r)
    \/ CM_Broadcast(r)
    \/ CM_Receipt(r)
    \/ CM_UpdateTransaction(r)
    \/ CM_Finalize(r)

(* -------------------------------- Init --------------------------------- *)
\* the tables and the handler before a request, the wallets imported by
\* owner and the keys of corrupt not decrypting
Idle(owner, corrupt) ==
  /\ wallets = [w \in Wallets |->
                  [id |-> w, userId |-> owner[w], address |-> w,
                   network |-> NetworkOf(w), keyOk |-> w \notin corrupt]]
  /\ transactions = <<>>
  /\ operations = <<>>
  /\ chain = <<>>
  /\ pc = "idle"
  /\ req = NoReq
  /\ selectedWallets = <<>>
  /\ idx = 0
  /\ totalAmount = 0
  /\ results = <<>>
  /\ local = NoLocal
  /\ response = NoResponse
  /\ trace = [w \in Wallets |-> NoTrace]

InitWith(owner) ==
  /\ \E corrupt \in {c \in SUBSET Wallets : Cardinality(c) <= MaxCorrupt} :
       Idle(owner, corrupt)
  /\ calc = NoCalc
  /\ vault = EmptyVault
  /\ conc = NoConc
  /\ store = EmptyStore
  /\ lookup = NoLookup

\* two owners share the wallets table
Init == InitWith([w \in Wallets |-> OwnerOf(w)])

\* no request: one balance goes through the arithmetic of the loop body
InitAmount ==
  /\ Idle([w \in Wallets |-> OwnerOf(w)], {})
  /\ \E balance \in CalcBalances :
       calc = [NoCalc EXCEPT !.stage = "balance", !.balance = balance]
  /\ vault = EmptyVault
  /\ conc = NoConc
  /\ store = EmptyStore
  /\ lookup = NoLookup

\* no request: keys are encrypted into the vault and decrypted again
InitVault ==
  /\ Idle([w \in Wallets |-> OwnerOf(w)], {})
  /\ calc = NoCalc
  /\ vault = EmptyVault
  /\ conc = NoConc
  /\ store = EmptyStore
  /\ lookup = NoLookup

\* no request yet: two are about to arrive from the same user
InitConc ==
  /\ Idle([w \in Wallets |-> OwnerOf(w)], {})
  /\ calc = NoCalc
  /\ vault = EmptyVault
  /\ conc = NoConc
  /\ store = EmptyStore
  /\ lookup = NoLookup

\* no request yet, no wallet imported
InitStore ==
  /\ Idle([w \in Wallets |-> OwnerOf(w)], {})
  /\ calc = NoCalc
  /\ vault = EmptyVault
  /\ conc = NoConc
  /\ store = EmptyStore
  /\ lookup = NoLookup

\* getBalance has been called for an address on some network, what the
\* network holds for the address being live (or the call to it failing)
InitLookup ==
  /\ Idle([w \in Wallets |-> OwnerOf(w)], {})
  /\ calc = NoCalc
  /\ vault = EmptyVault
  /\ conc = NoConc
  /\ store = EmptyStore
  /\ \E network \in Networks, live \in Balances \cup {RpcError} :
       lookup = [NoLookup EXCEPT !.stage = "asked", !.network = network,
                                 !.live = live]

\* one owner imported every wallet
InitOneOwner == InitWith([w \in Wallets |-> "u1"])

Respond(code, message) ==
  response' = [NoResponse EXCEPT !.code = code, !.message = message]

(* ---------------- POST /api/transactions/mass-send --------------------- *)
\* the request arrives: routes.ts:179-183 up to the await of getUserWallets
MS_Start ==
  /\ pc = "idle"
  /\ UNCHANGED others
  /\ \E u \in Users, to \in Addresses, has \in BOOLEAN, null \in BOOLEAN,
        ids \in SeqsUpTo(Wallets \cup {UnknownId}, MaxIds) :
       /\ has \/ ids = <<>>
       /\ ~(has /\ null)
       /\ req' = [NoReq EXCEPT !.kind = "mass_send", !.userId = u,
                               !.toAddress = to, !.hasWalletIds = has,
                               !.nullWalletIds = null, !.walletIds = ids]
  /\ pc' = "ms_getUserWallets"
  /\ UNCHANGED <<wallets, transactions, operations, chain, selectedWallets,
                 idx, totalAmount, results, local, response, trace>>

\* getUserWallets settles: routes.ts:183-197 (and 282-285 when it rejects)
MS_GetUserWallets ==
  /\ pc = "ms_getUserWallets"
  /\ UNCHANGED others
  /\ \/ /\ selectedWallets' = SelectWallets(getUserWallets(req.userId), req)
        /\ IF Len(selectedWallets') = 0
           THEN /\ Respond(400, "No wallets selected")
                /\ pc' = "done"
           ELSE /\ pc' = "ms_createOp"
                /\ UNCHANGED response
     \/ /\ Respond(500, "Failed to execute mass send")
        /\ pc' = "done"
        /\ UNCHANGED selectedWallets
  /\ UNCHANGED <<wallets, transactions, operations, chain, req, idx,
                 totalAmount, results, local, trace>>

\* createMassSendOperation settles: routes.ts:197-207
MS_CreateOperation ==
  /\ pc = "ms_createOp"
  /\ UNCHANGED others
  /\ \/ /\ operations' = createMassSendOperation(
                           [userId |-> req.userId, toAddress |-> req.toAddress,
                            network |-> selectedWallets[1].network,
                            totalAmount |-> 0,
                            walletsCount |-> Len(selectedWallets),
                            status |-> "pending"])
        /\ idx' = 1
        /\ pc' = "ms_getBalance"
        /\ UNCHANGED response
     \/ /\ Respond(500, "Failed to execute mass send")
        /\ pc' = "done"
        /\ UNCHANGED <<operations, idx>>
  /\ UNCHANGED <<wallets, transactions, chain, req, selectedWallets,
                 totalAmount, results, local, trace>>

\* NextWallet leaving the loop after the first wallet
NextWallet_StopsEarly ==
  /\ idx' = idx + 1
  /\ pc' = "ms_finalize"
  /\ local' = NoLocal

\* the for loop moves to the next wallet, or past the last one
NextWallet ==
  /\ idx' = idx + 1
  /\ pc' = IF idx + 1 > Len(selectedWallets) THEN "ms_finalize" ELSE "ms_getBalance"
  /\ local' = NoLocal

\* CatchWallet leaving the loop after the first failure
CatchWallet_Aborts(wallet, message) ==
  /\ results' = Append(results,
                       [walletId |-> wallet.id, address |-> wallet.address,
                        status |-> "failed", amount |-> None, txHash |-> None,
                        error |-> message])
  /\ pc' = "ms_finalize"
  /\ local' = NoLocal
  /\ UNCHANGED idx

\* the catch block of the loop body: routes.ts:259-267
CatchWallet(wallet, message) ==
  /\ results' = Append(results,
                       [walletId |-> wallet.id, address |-> wallet.address,
                        status |-> "failed", amount |-> None, txHash |-> None,
                        error |-> message])
  /\ NextWallet

\* MS_GetBalance passing over a wallet whose key does not decrypt
MS_GetBalance_SkipsBadKey ==
  /\ pc = "ms_getBalance"
  /\ UNCHANGED others
  /\ LET wallet == selectedWallets[idx] IN
     \E live \in Balances \cup {RpcError} :
       LET balance == getBalance(wallet.network, live) IN
       \/ /\ ~aboveDust(balance) \/ ~wallet.keyOk
          /\ trace' = [trace EXCEPT ![wallet.id].balanceQueries = @ + 1,
                                    ![wallet.id].balance = balance,
                                    ![wallet.id].balanceFailed =
                                      balanceLookupFails(wallet.network, live),
                                    ![wallet.id].decrypts =
                                      IF aboveDust(balance) THEN @ + 1 ELSE @]
          /\ NextWallet
          /\ UNCHANGED results
       \/ /\ aboveDust(balance)
          /\ wallet.keyOk
          /\ trace' = [trace EXCEPT ![wallet.id].balanceQueries = @ + 1,
                                    ![wallet.id].balance = balance,
                                    ![wallet.id].balanceFailed =
                                      balanceLookupFails(wallet.network, live),
                                    ![wallet.id].decrypts = @ + 1]
          /\ local' = [NoLocal EXCEPT !.balance = balance, !.keyOk = TRUE]
          /\ pc' = "ms_estimateGas"
          /\ UNCHANGED <<idx, results>>
  /\ UNCHANGED <<wallets, transactions, operations, chain, req,
                 selectedWallets, totalAmount, response>>

\* getBalance settles: routes.ts:210-217
MS_GetBalance ==
  /\ pc = "ms_getBalance"
  /\ UNCHANGED others
  /\ LET wallet == selectedWallets[idx] IN
     \E live \in Balances \cup {RpcError} :
       LET balance == getBalance(wallet.network, live) IN
       \/ /\ ~aboveDust(balance)
          /\ trace' = [trace EXCEPT ![wallet.id].balanceQueries = @ + 1,
                                    ![wallet.id].balance = balance,
                                    ![wallet.id].balanceFailed =
                                      balanceLookupFails(wallet.network, live)]
          /\ NextWallet
          /\ UNCHANGED results
       \/ /\ aboveDust(balance)
          /\ ~wallet.keyOk
          /\ trace' = [trace EXCEPT ![wallet.id].balanceQueries = @ + 1,
                                    ![wallet.id].balance = balance,
                                    ![wallet.id].balanceFailed =
                                      balanceLookupFails(wallet.network, live),
                                    ![wallet.id].decrypts = @ + 1]
          /\ CatchWallet(wallet, "unable to authenticate data")
       \/ /\ aboveDust(balance)
          /\ wallet.keyOk
          /\ trace' = [trace EXCEPT ![wallet.id].balanceQueries = @ + 1,
                                    ![wallet.id].balance = balance,
                                    ![wallet.id].balanceFailed =
                                      balanceLookupFails(wallet.network, live),
                                    ![wallet.id].decrypts = @ + 1]
          /\ local' = [NoLocal EXCEPT !.balance = balance, !.keyOk = TRUE]
          /\ pc' = "ms_estimateGas"
          /\ UNCHANGED <<idx, results>>
  /\ UNCHANGED <<wallets, transactions, operations, chain, req,
                 selectedWallets, totalAmount, response>>

\* MS_EstimateGas reporting a wallet with nothing left to send as failed
MS_EstimateGas_FailsUnsendable ==
  /\ pc = "ms_estimateGas"
  /\ UNCHANGED others
  /\ LET wallet == selectedWallets[idx] IN
     \E market \in MarketFees \cup {RpcError} :
       LET gasEstimate == estimateGas(wallet.network, market)
           amount == amountToSend(local.balance, gasEstimate)
       IN /\ trace' = [trace EXCEPT ![wallet.id].fee = gasEstimate,
                                    ![wallet.id].feeFailed =
                                      feeLookupFails(wallet.network, market)]
          /\ \/ /\ amount > 0
                /\ local' = [local EXCEPT !.gasEstimate = gasEstimate,
                                          !.amountToSend = amount]
                /\ pc' = "ms_createTx"
                /\ UNCHANGED idx
                /\ UNCHANGED results
             \/ /\ ~(amount > 0)
                /\ CatchWallet(wallet, "insufficient balance")
  /\ UNCHANGED <<wallets, transactions, operations, chain, req,
                 selectedWallets, totalAmount, response>>

\* MS_EstimateGas with a fee lookup that raises instead of falling back
MS_EstimateGas_Raises ==
  /\ pc = "ms_estimateGas"
  /\ UNCHANGED others
  /\ LET wallet == selectedWallets[idx] IN
     \E market \in MarketFees \cup {RpcError} :
       LET gasEstimate == estimateGas(wallet.network, market)
           amount == amountToSend(local.balance, gasEstimate)
       IN /\ trace' = [trace EXCEPT ![wallet.id].fee = gasEstimate,
                                    ![wallet.id].feeFailed =
                                      feeLookupFails(wallet.network, market)]
          /\ \/ /\ feeLookupFails(wallet.network, market)
                /\ CatchWallet(wallet, "fee unavailable")
             \/ /\ ~feeLookupFails(wallet.network, market)
                /\ amount > 0
                /\ local' = [local EXCEPT !.gasEstimate = gasEstimate,
                                          !.amountToSend = amount]
                /\ pc' = "ms_createTx"
                /\ UNCHANGED <<idx, results>>
             \/ /\ ~feeLookupFails(wallet.network, market)
                /\ ~(amount > 0)
                /\ NextWallet
                /\ UNCHANGED results
  /\ UNCHANGED <<wallets, transactions, operations, chain, req,
                 selectedWallets, totalAmount, response>>

\* estimateGas settles: routes.ts:217-222
MS_EstimateGas ==
  /\ pc = "ms_estimateGas"
  /\ UNCHANGED others
  /\ LET wallet == selectedWallets[idx] IN
     \E market \in MarketFees \cup {RpcError} :
       LET gasEstimate == estimateGas(wallet.network, market)
           amount == amountToSend(local.balance, gasEstimate)
       IN /\ trace' = [trace EXCEPT ![wallet.id].fee = gasEstimate,
                                    ![wallet.id].feeFailed =
                                      feeLookupFails(wallet.network, market)]
          /\ \/ /\ amount > 0
                /\ local' = [local EXCEPT !.gasEstimate = gasEstimate,
                                          !.amountToSend = amount]
                /\ pc' = "ms_createTx"
                /\ UNCHANGED idx
             \/ /\ ~(amount > 0)
                /\ NextWallet
  /\ UNCHANGED <<wallets, transactions, operations, chain, req,
                 selectedWallets, totalAmount, results, response>>

\* MS_CreateTransaction going on to sendTransaction when the insert failed
MS_CreateTransaction_SendsAnyway ==
  /\ pc = "ms_createTx"
  /\ UNCHANGED others
  /\ LET wallet == selectedWallets[idx] IN
     \/ /\ transactions' = createTransaction(
                             [userId |-> req.userId, type |-> "mass_send",
                              fromWalletId |-> wallet.id,
                              toAddress |-> req.toAddress,
                              amount |-> local.amountToSend,
                              network |-> wallet.network, status |-> "pending"])
        /\ local' = [local EXCEPT !.transaction = Len(transactions) + 1]
     \/ UNCHANGED <<transactions, local>>
  /\ pc' = "ms_send"
  /\ UNCHANGED <<wallets, operations, chain, req, selectedWallets, idx,
                 results, totalAmount, response, trace>>

\* createTransaction settles: routes.ts:222-234
MS_CreateTransaction ==
  /\ pc = "ms_createTx"
  /\ UNCHANGED others
  /\ LET wallet == selectedWallets[idx] IN
     \/ /\ transactions' = createTransaction(
                             [userId |-> req.userId, type |-> "mass_send",
                              fromWalletId |-> wallet.id,
                              toAddress |-> req.toAddress,
                              amount |-> local.amountToSend,
                              network |-> wallet.network, status |-> "pending"])
        /\ local' = [local EXCEPT !.transaction = Len(transactions) + 1]
        /\ pc' = "ms_send"
        /\ UNCHANGED <<idx, results>>
     \/ /\ CatchWallet(wallet, "insert failed")
        /\ UNCHANGED transactions
  /\ UNCHANGED <<wallets, operations, chain, req, selectedWallets,
                 totalAmount, response, trace>>

\* what the network may do with a well-formed transfer: included and reported,
\* refused before broadcast, or broadcast with the receipt wait failing
SendOutcomes == {"included", "rejected", "wait_failed"}

\* WalletService.sendTransaction up to its throw or return (walletService.ts
\* 105-136): the error message it throws, or "" when it returns a hash
sendError(toAddress, network, outcome) ==
  IF network \notin rpcUrls THEN "Unsupported network"
  ELSE IF ~isAddress(toAddress) THEN "Invalid recipient address"
  ELSE IF outcome = "rejected" THEN "insufficient funds"
  ELSE IF outcome = "wait_failed" THEN "receipt unavailable"
  ELSE ""

\* sendBroadcasts without the check of the recipient address
sendBroadcasts_Unchecked(toAddress, network, outcome) ==
  /\ network \in rpcUrls
  /\ outcome \in {"included", "wait_failed"}

\* whether wallet.sendTransaction(tx) was reached and broadcast the transfer
sendBroadcasts(toAddress, network, outcome) ==
  /\ network \in rpcUrls
  /\ isAddress(toAddress)
  /\ outcome \in {"included", "wait_failed"}

\* whether sendTransaction gets as far as its first provider call, getFeeData
sendCallsNetwork(toAddress, network) ==
  network \in rpcUrls /\ isAddress(toAddress)

\* the network after the call
submit(from, toAddress, amount, network, outcome) ==
  IF sendBroadcasts(toAddress, network, outcome)
  THEN Append(chain, [from |-> from, to |-> toAddress, amount |-> amount,
                      network |-> network, hash |-> Len(chain) + 1])
  ELSE chain

\* sendTransaction settles: routes.ts:234-242
MS_SendTransaction ==
  /\ pc = "ms_send"
  /\ UNCHANGED others
  /\ LET wallet == selectedWallets[idx] IN
     \E outcome \in SendOutcomes :
       /\ chain' = submit(wallet.address, req.toAddress, local.amountToSend,
                          wallet.network, outcome)
       /\ trace' = [trace EXCEPT
            ![wallet.id].submits = @ + 1,
            ![wallet.id].netCalls =
              IF sendCallsNetwork(req.toAddress, wallet.network)
              THEN @ + 1 ELSE @,
            ![wallet.id].sendThrows =
              IF sendError(req.toAddress, wallet.network, outcome) # ""
              THEN @ + 1 ELSE @]
       /\ \/ /\ sendError(req.toAddress, wallet.network, outcome) = ""
             /\ local' = [local EXCEPT !.hash = Len(chain) + 1]
             /\ pc' = "ms_updateTx"
             /\ UNCHANGED <<idx, results>>
          \/ /\ sendError(req.toAddress, wallet.network, outcome) # ""
             /\ CatchWallet(wallet,
                            sendError(req.toAddress, wallet.network, outcome))
  /\ UNCHANGED <<wallets, transactions, operations, req, selectedWallets,
                 totalAmount, response>>

\* MS_UpdateTransaction adding to the total before the update is awaited
MS_UpdateTransaction_AddsFirst ==
  /\ pc = "ms_updateTx"
  /\ UNCHANGED others
  /\ LET wallet == selectedWallets[idx] IN
     \/ /\ transactions' = updateTransaction(local.transaction, "confirmed",
                                             local.hash, "")
        /\ totalAmount' = totalAmount + local.amountToSend
        /\ results' = Append(results,
                             [walletId |-> wallet.id, address |-> wallet.address,
                              status |-> "confirmed",
                              amount |-> local.amountToSend,
                              txHash |-> local.hash, error |-> ""])
        /\ NextWallet
     \/ /\ CatchWallet(wallet, "update failed")
        /\ totalAmount' = totalAmount + local.amountToSend
        /\ UNCHANGED transactions
  /\ UNCHANGED <<wallets, operations, chain, req, selectedWallets, response,
                 trace>>

\* updateTransaction settles: routes.ts:242-257
MS_UpdateTransaction ==
  /\ pc = "ms_updateTx"
  /\ UNCHANGED others
  /\ LET wallet == selectedWallets[idx] IN
     \/ /\ transactions' = updateTransaction(local.transaction, "confirmed",
                                             local.hash, "")
        /\ totalAmount' = totalAmount + local.amountToSend
        /\ results' = Append(results,
                             [walletId |-> wallet.id, address |-> wallet.address,
                              status |-> "confirmed",
                              amount |-> local.amountToSend,
                              txHash |-> local.hash, error |-> ""])
        /\ NextWallet
     \/ /\ CatchWallet(wallet, "update failed")
        /\ UNCHANGED <<transactions, totalAmount>>
  /\ UNCHANGED <<wallets, operations, chain, req, selectedWallets, response,
                 trace>>

\* someConfirmed asking that no entry failed
someConfirmed_NoneFailed(rs) == \A i \in DOMAIN rs : rs[i].status # "failed"

\* results.some(r => r.status === "confirmed")
someConfirmed(rs) == \E i \in DOMAIN rs : rs[i].status = "confirmed"

\* the operation row the request created (operation.id)
operationId == Len(operations)

\* Summary counting the result entries instead of the selected wallets
Summary_CountsResults ==
  [code |-> 200, message |-> "", operationId |-> operationId,
   totalAmount |-> totalAmount, results |-> results,
   walletsProcessed |-> Len(results)]

\* the response body: routes.ts:276-281
Summary ==
  [code |-> 200, message |-> "", operationId |-> operationId,
   totalAmount |-> totalAmount, results |-> results,
   walletsProcessed |-> Len(selectedWallets)]

\* updateMassSendOperation settles: routes.ts:271-285
MS_Finalize ==
  /\ pc = "ms_finalize"
  /\ UNCHANGED others
  /\ \/ /\ operations' = updateMassSendOperation(
                           operationId, totalAmount,
                           IF someConfirmed(results) THEN "confirmed" ELSE "failed")
        /\ response' = Summary
     \/ /\ Respond(500, "Failed to execute mass send")
        /\ UNCHANGED operations
  /\ pc' = "done"
  /\ UNCHANGED <<wallets, transactions, chain, req, selectedWallets, idx,
                 totalAmount, results, local, trace>>

(* ------------------- POST /api/transactions/send ----------------------- *)
\* the request arrives: routes.ts:118-122
SS_Start ==
  /\ pc = "idle"
  /\ UNCHANGED others
  /\ \E u \in Users, to \in Addresses, from \in Wallets \cup {UnknownId},
        amount \in SendAmounts :
       req' = [NoReq EXCEPT !.kind = "send", !.userId = u, !.toAddress = to,
                            !.fromWalletId = from, !.amount = amount]
  /\ pc' = "ss_getWallet"
  /\ UNCHANGED <<wallets, transactions, operations, chain, selectedWallets,
                 idx, totalAmount, results, local, response, trace>>

\* getWallet settles: routes.ts:122-131; a decrypt that throws goes to 171-174
SS_GetWallet ==
  /\ pc = "ss_getWallet"
  /\ UNCHANGED others
  /\ \/ /\ getWallet(req.fromWalletId, req.userId) = {}
        /\ Respond(404, "Wallet not found")
        /\ pc' = "done"
        /\ UNCHANGED <<selectedWallets, trace>>
     \/ /\ \E wallet \in getWallet(req.fromWalletId, req.userId) :
             /\ trace' = [trace EXCEPT ![wallet.id].decrypts = @ + 1]
             /\ IF wallet.keyOk
                THEN /\ selectedWallets' = <<wallet>>
                     /\ pc' = "ss_createTx"
                     /\ UNCHANGED response
                ELSE /\ Respond(500, "Failed to send transaction")
                     /\ pc' = "done"
                     /\ UNCHANGED selectedWallets
     \/ /\ Respond(500, "Failed to send transaction")
        /\ pc' = "done"
        /\ UNCHANGED <<selectedWallets, trace>>
  /\ UNCHANGED <<wallets, transactions, operations, chain, req, idx,
                 totalAmount, results, local>>

\* createTransaction settles: routes.ts:131-144
SS_CreateTransaction ==
  /\ pc = "ss_createTx"
  /\ UNCHANGED others
  /\ LET wallet == selectedWallets[1] IN
     \/ /\ transactions' = createTransaction(
                             [userId |-> req.userId, type |-> "send",
                              fromWalletId |-> req.fromWalletId,
                              toAddress |-> req.toAddress, amount |-> req.amount,
                              network |-> wallet.network, status |-> "pending"])
        /\ local' = [NoLocal EXCEPT !.transaction = Len(transactions) + 1,
                                    !.keyOk = TRUE]
        /\ pc' = "ss_send"
        /\ UNCHANGED response
     \/ /\ Respond(500, "Failed to send transaction")
        /\ pc' = "done"
        /\ UNCHANGED <<transactions, local>>
  /\ UNCHANGED <<wallets, operations, chain, req, selectedWallets, idx,
                 totalAmount, results, trace>>

\* sendTransaction settles: routes.ts:144-152, or 160-164 when it throws
SS_SendTransaction ==
  /\ pc = "ss_send"
  /\ UNCHANGED others
  /\ LET wallet == selectedWallets[1] IN
     \E outcome \in SendOutcomes :
       /\ chain' = submit(wallet.address, req.toAddress, req.amount,
                          wallet.network, outcome)
       /\ trace' = [trace EXCEPT
            ![wallet.id].submits = @ + 1,
            ![wallet.id].netCalls =
              IF sendCallsNetwork(req.toAddress, wallet.network)
              THEN @ + 1 ELSE @,
            ![wallet.id].sendThrows =
              IF sendError(req.toAddress, wallet.network, outcome) # ""
              THEN @ + 1 ELSE @]
       /\ \/ /\ sendError(req.toAddress, wallet.network, outcome) = ""
             /\ local' = [local EXCEPT !.hash = Len(chain) + 1]
             /\ pc' = "ss_updateConfirmed"
          \/ /\ sendError(req.toAddress, wallet.network, outcome) # ""
             /\ pc' = "ss_updateFailed"
             /\ UNCHANGED local
  /\ UNCHANGED <<wallets, transactions, operations, req, selectedWallets, idx,
                 totalAmount, results, response>>

\* updateTransaction(confirmed) settles: routes.ts:152-164
SS_UpdateConfirmed ==
  /\ pc = "ss_updateConfirmed"
  /\ UNCHANGED others
  /\ \/ /\ transactions' = updateTransaction(local.transaction, "confirmed",
                                             local.hash, "")
        /\ response' = [NoResponse EXCEPT !.code = 200]
        /\ pc' = "done"
     \/ /\ pc' = "ss_updateFailed"
        /\ UNCHANGED <<transactions, response>>
  /\ UNCHANGED <<wallets, operations, chain, req, selectedWallets, idx,
                 totalAmount, results, local, trace>>

\* updateTransaction(failed) settles: routes.ts:164-174
SS_UpdateFailed ==
  /\ pc = "ss_updateFailed"
  /\ UNCHANGED others
  /\ \/ /\ transactions' = updateTransaction(local.transaction, "failed",
                                             None, "Transaction failed")
        /\ Respond(400, "Transaction failed")
     \/ /\ Respond(500, "Failed to send transaction")
        /\ UNCHANGED transactions
  /\ pc' = "done"
  /\ UNCHANGED <<wallets, operations, chain, req, selectedWallets, idx,
                 totalAmount, results, local, trace>>

(* ------------------------------- Spec ---------------------------------- *)
Next ==
  \/ MS_Start
  \/ MS_GetUserWallets
  \/ MS_CreateOperation
  \/ MS_GetBalance
  \/ MS_EstimateGas
  \/ MS_CreateTransaction
  \/ MS_SendTransaction
  \/ MS_UpdateTransaction
  \/ MS_Finalize
  \/ SS_Start
  \/ SS_GetWallet
  \/ SS_CreateTransaction
  \/ SS_SendTransaction
  \/ SS_UpdateConfirmed
  \/ SS_UpdateFailed

Spec == Init /\ [][Next]_vars

\* the same handlers over the table of one owner
SpecOneOwner == InitOneOwner /\ [][Next]_vars

\* the arithmetic of the loop body on one balance
SpecAmount == InitAmount /\ [][NextAmount]_vars

\* two mass-send requests of one user
SpecConc == InitConc /\ [][NextConc]_vars

\* the wallet and transaction tables under import, refresh, delete and
\* the record writes of the send handlers
SpecStore == InitStore /\ [][NextStore]_vars

\* getBalance on its own
SpecLookup == InitLookup /\ [][NextLookup]_vars

\* CryptoService on its own
SpecVault == InitVault /\ [][NextVault]_vars

(* ----------------------- vocabulary of the claims ---------------------- *)
MassSend == req.kind = "mass_send"
Finished == pc = "done"
\* the mass-send has created its operation row
Started == MassSend /\ Len(operations) > 0
\* the for loop has run past its last wallet
LoopOver == Started /\ pc \in {"ms_finalize", "done"}
\* the mass-send response body was sent
Responded == MassSend /\ response.code = 200

Range(f) == {f[i] : i \in DOMAIN f}

RECURSIVE SumAmounts(_)
SumAmounts(rs) ==
  IF rs = <<>> THEN 0
  ELSE (IF Head(rs).status = "confirmed" THEN Head(rs).amount ELSE 0)
       + SumAmounts(Tail(rs))

EntriesOf(rs, w) == {i \in DOMAIN rs : rs[i].walletId = w}
RecordsOf(w) == {i \in DOMAIN transactions : transactions[i].fromWalletId = w}
SelectedIds == {selectedWallets[i].id : i \in DOMAIN selectedWallets}

\* the wallet was looked at and left alone: dust, or nothing left to send
IsDust(w) == trace[w].balance # None /\ trace[w].balance <= Dust
IsUnsendable(w) ==
  /\ trace[w].balance # None /\ trace[w].balance > Dust
  /\ trace[w].fee # None
  /\ trace[w].balance - trace[w].fee - Reserve <= 0
Skipped(w) == IsDust(w) \/ IsUnsendable(w)

(* ------------------------------- C1 ------------------------------------ *)
\* C1: when a mass-send request has finished, every transfer record it
\* created has been updated exactly once to a terminal status (confirmed or
\* failed); none is left pending.
C1_RecordsSettled ==
  MassSend /\ Finished =>
    \A i \in DOMAIN transactions :
      /\ transactions[i].status \in {"confirmed", "failed"}
      /\ transactions[i].updates = 1

C3_StatusIffSomeConfirmed ==
  \A i \in DOMAIN operations :
    operations[i].updates > 0 =>
      /\ operations[i].status \in {"confirmed", "failed"}
      /\ operations[i].status = "confirmed" <=>
           \E k \in DOMAIN results : results[k].status = "confirmed"

\* every selected wallet was skipped: empty result list, operation failed
C3_Witness ==
  /\ Responded
  /\ Len(selectedWallets) = 2
  /\ \A w \in SelectedIds : Skipped(w)
  /\ response.results = <<>>
  /\ operations[response.operationId].status = "failed"

(* ------------------------------- C4 ------------------------------------ *)
\* the set W a request asks for: the distinct ids of walletIds
RequestedSet == Range(req.walletIds)
\* the wallets of the requesting owner that W names (all of them without W)
OwnedRequested ==
  {w \in DOMAIN wallets :
     /\ wallets[w].userId = req.userId
     /\ req.hasWalletIds => w \in RequestedSet}

\* C4 as stated: walletsProcessed of the response equals |W|.
C4_ProcessedIsRequested ==
  Responded /\ req.hasWalletIds =>
    response.walletsProcessed = Cardinality(RequestedSet)

\* C4 as amended: walletsProcessed equals the number of wallets of the
\* requesting owner whose id occurs in W (all the owner's wallets when the
\* request carries no walletIds), skipped wallets counted, whatever fails.
C4_ProcessedIsOwnedRequested ==
  Responded => response.walletsProcessed = Cardinality(OwnedRequested)

\* a duplicate id, one wallet processed, and its transfer failed
C4_Witness ==
  /\ Responded
  /\ Len(req.walletIds) = 2
  /\ req.walletIds[1] = req.walletIds[2]
  /\ response.walletsProcessed = 1
  /\ Len(response.results) = 1
  /\ response.results[1].status = "failed"

(* ------------------------------- C5 ------------------------------------ *)
\* C5: a wallet whose live balance is at or below the dust threshold has no
\* transfer record, no decrypted key, no submitted transfer and no result
\* entry.
C5_DustIsSkipped ==
  MassSend =>
    \A w \in Wallets :
      IsDust(w) =>
        /\ RecordsOf(w) = {}
        /\ trace[w].decrypts = 0
        /\ trace[w].submits = 0
        /\ EntriesOf(results, w) = {}
        /\ \A k \in DOMAIN chain : chain[k].from # wallets[w].address

\* a wallet holding exactly the threshold was skipped, the next one was sent
C5_Witness ==
  /\ Responded
  /\ Len(selectedWallets) = 2
  /\ trace[selectedWallets[1].id].balance = Dust
  /\ Len(response.results) = 1
  /\ response.results[1].status = "confirmed"

(* ------------------------------- C6 ------------------------------------ *)
\* C6: every selected wallet has its balance fetched exactly once, in order,
\* whatever happened to the wallets before it; no response is sent before
\* the loop has passed the last wallet; and every wallet with an intact key
\* and something to send has its transfer submitted unless creating its
\* record failed.
C6_Isolation ==
  Started =>
    /\ \A i \in DOMAIN selectedWallets :
         trace[selectedWallets[i].id].balanceQueries
           = IF i < idx \/ (i = idx /\ pc # "ms_getBalance") THEN 1 ELSE 0
    /\ Finished => idx = Len(selectedWallets) + 1
    /\ LoopOver =>
         \A w \in SelectedIds :
           /\ trace[w].balance > Dust
           /\ wallets[w].keyOk
           /\ ~IsUnsendable(w)
           /\ RecordsOf(w) # {}
           => trace[w].submits = 1

\* the first wallet failed and the second one was still sent
C6_Witness ==
  /\ LoopOver
  /\ Len(selectedWallets) = 2
  /\ Len(results) = 2
  /\ results[1].status = "failed"
  /\ results[1].walletId = selectedWallets[1].id
  /\ results[2].status = "confirmed"
  /\ results[2].walletId = selectedWallets[2].id
  /\ trace[selectedWallets[1].id].submits = 1

(* ------------------------------- C7 ------------------------------------ *)
\* C7: once the operation row exists, the request ends with the operation
\* summary and with the operation row finalized, never with an error.
C7_NeverThrowsOnceStarted ==
  Started /\ Finished =>
    /\ response.code = 200
    /\ operations[Len(operations)].status # "pending"

(* ------------------------------- C8 ------------------------------------ *)
\* C8: a mass-send to a malformed destination is rejected as a whole before
\* any side effect: no operation row, no balance query, no decrypt, no
\* transfer record, and the response is an error.
C8_BadAddressRejected ==
  MassSend /\ ~isAddress(req.toAddress) =>
    /\ operations = <<>>
    /\ transactions = <<>>
    /\ \A w \in Wallets : trace[w].balanceQueries = 0 /\ trace[w].decrypts = 0
    /\ Finished => response.code # 200

(* ------------------------------- C9 ------------------------------------ *)
\* C9: a mass-send that selects no wallet of the owner has no side effect
\* (no operation row, no balance query, no transfer record, nothing
\* submitted), and once the wallet list has been read it ends with the
\* no-wallets-selected error (the only other end is the wallet list read
\* itself failing).
C9_EmptySetRejected ==
  MassSend /\ OwnedRequested = {} =>
    /\ operations = <<>>
    /\ transactions = <<>>
    /\ chain = <<>>
    /\ \A w \in Wallets : trace[w] = NoTrace
    /\ Finished =>
         \/ response.code = 400 /\ response.message = "No wallets selected"
         \/ response.code = 500 /\ selectedWallets = <<>>

\* the owner has wallets, the list names none of them, the request is refused
C9_Witness ==
  /\ MassSend /\ Finished
  /\ req.userId = "u1"
  /\ req.hasWalletIds
  /\ Len(req.walletIds) = 2
  /\ OwnedRequested = {}
  /\ response.code = 400

(* ------------------------------- C10 ----------------------------------- *)
\* C10: the response holds exactly one entry for every selected wallet that
\* was not skipped and none for a skipped or an unselected one; a confirmed
\* entry carries an amount and a hash, a failed entry a reason.
C10_OneEntryPerAttempt ==
  Responded =>
    /\ \A w \in Wallets :
         Cardinality(EntriesOf(response.results, w))
           = IF w \in SelectedIds /\ ~Skipped(w) THEN 1 ELSE 0
    /\ \A k \in DOMAIN response.results :
         LET r == response.results[k] IN
           \/ r.status = "confirmed" /\ r.amount > 0 /\ r.txHash # None
           \/ r.status = "failed" /\ r.error # ""

\* one wallet had nothing left to send, the other was confirmed
C10_Witness ==
  /\ Responded
  /\ Len(selectedWallets) = 2
  /\ IsUnsendable(selectedWallets[1].id)
  /\ Len(response.results) = 1
  /\ response.results[1].walletId = selectedWallets[2].id
  /\ response.results[1].status = "confirmed"

(* ------------------------------- C11 ----------------------------------- *)
\* the wallets whose stored key was tried and did not decrypt
BadKeyTried == {w \in Wallets : trace[w].decrypts > 0 /\ ~wallets[w].keyOk}

\* C11: a wallet whose stored key fails to decrypt during a mass-send has
\* exactly one result entry, a failed one carrying the decrypt error, and no
\* fee estimate, no transfer record, no submission; the loop still reaches
\* every later wallet; the response total is the sum over the entries of the
\* other wallets, and the operation is confirmed when one of them is.
C11_DecryptFailureIsolated ==
  MassSend =>
    /\ \A w \in BadKeyTried :
         /\ Cardinality(EntriesOf(results, w)) = 1
         /\ \A k \in EntriesOf(results, w) :
              /\ results[k].status = "failed"
              /\ results[k].error = "unable to authenticate data"
         /\ trace[w].fee = None
         /\ RecordsOf(w) = {}
         /\ trace[w].submits = 0
         /\ \A k \in DOMAIN chain : chain[k].from # wallets[w].address
    /\ LoopOver =>
         \A w \in SelectedIds : trace[w].balanceQueries = 1
    /\ Responded =>
         /\ response.totalAmount
              = SumAmounts(SelectSeq(response.results,
                                     LAMBDA r : r.walletId \notin BadKeyTried))
         /\ (\E k \in DOMAIN response.results :
               /\ response.results[k].walletId \notin BadKeyTried
               /\ response.results[k].status = "confirmed")
            => operations[response.operationId].status = "confirmed"

\* Scenario B: the second of three wallets has a corrupt key, the first and
\* the third are confirmed, the total is the sum of their two amounts
C11_Witness ==
  /\ Responded
  /\ Len(selectedWallets) = 3
  /\ BadKeyTried = {selectedWallets[2].id}
  /\ Len(response.results) = 3
  /\ response.results[1].status = "confirmed"
  /\ response.results[2].status = "failed"
  /\ response.results[3].status = "confirmed"
  /\ operations[response.operationId].status = "confirmed"
  /\ response.totalAmount
       = response.results[1].amount + response.results[3].amount

(* ------------------------------- C12 ----------------------------------- *)
\* C12: when the loop is over, every selected wallet whose balance lookup or
\* whose transfer call failed on the network has a failed result entry (the
\* fee lookup is left out here: it falls back to a fixed value, see C17).
C12_NetworkFailureIsFailedEntry ==
  LoopOver =>
    \A w \in SelectedIds :
      trace[w].balanceFailed \/ trace[w].sendThrows > 0 =>
        \E k \in EntriesOf(results, w) : results[k].status = "failed"

C15_AddressCheckedFirst ==
  req.kind # "none" /\ ~isAddress(req.toAddress) =>
    /\ chain = <<>>
    /\ \A w \in Wallets :
         /\ trace[w].netCalls = 0
         /\ trace[w].sendThrows = trace[w].submits
         /\ MassSend /\ trace[w].submits > 0 =>
              \A k \in EntriesOf(results, w) :
                /\ results[k].status = "failed"
                /\ results[k].error = "Invalid recipient address"
    /\ Finished => response.code # 200 \/ MassSend

\* sendTransaction was called for two wallets with a malformed destination
C15_Witness ==
  /\ MassSend /\ LoopOver
  /\ ~isAddress(req.toAddress)
  /\ Len(selectedWallets) = 2
  /\ \A w \in SelectedIds : trace[w].submits = 1 /\ trace[w].sendThrows = 1
  /\ Len(results) = 2
  /\ chain = <<>>

(* ------------------------------- C16 ----------------------------------- *)
\* C16: no call of sendTransaction ends by throwing to its caller.
C16_ExecutorNeverThrows == \A w \in Wallets : trace[w].sendThrows = 0

(* ------------------------------- C17 ----------------------------------- *)
\* the selected wallets the loop has finished with
TurnOver == {selectedWallets[i].id : i \in 1..(idx - 1)}

\* C17: a wallet whose fee lookup failed was given the fallback estimate;
\* it goes on to the creation of its transfer record whenever the fallback
\* leaves something to send, a failed entry for it stems from a later step
\* (the record creation, the transfer or the record update), and the loop
\* still runs to its end.
C17_FeeFailsSoft ==
  MassSend =>
    /\ \A w \in Wallets :
         trace[w].feeFailed =>
           /\ trace[w].fee = FallbackFee
           /\ \A k \in EntriesOf(results, w) :
                results[k].status = "failed" =>
                  results[k].error = "insert failed" \/ RecordsOf(w) # {}
           /\ w \in TurnOver /\ amountToSend(trace[w].balance, FallbackFee) > 0
                => Cardinality(EntriesOf(results, w)) = 1
    /\ Started /\ Finished => idx = Len(selectedWallets) + 1

\* the fee lookup failed for the first wallet, which was then confirmed with
\* the fallback fee taken off, and the second wallet was processed too
C17_Witness ==
  /\ Responded
  /\ Len(selectedWallets) = 2
  /\ trace[selectedWallets[1].id].feeFailed
  /\ trace[selectedWallets[1].id].balance = 5000
  /\ Len(results) = 2
  /\ results[1].status = "confirmed"
  /\ results[1].amount = 5000 - FallbackFee - Reserve
  /\ results[2].status = "confirmed"

(* ------------------------------- C19 ----------------------------------- *)
\* Scenario A: three selected wallets reported 0.5, 0.0005 and 2.0, and the
\* fee estimate of the first and of the third was 0.002
ScenarioA ==
  /\ MassSend /\ LoopOver
  /\ Len(selectedWallets) = 3
  /\ trace[selectedWallets[1].id].balance = 5000
  /\ trace[selectedWallets[2].id].balance = 5
  /\ trace[selectedWallets[3].id].balance = 20000
  /\ trace[selectedWallets[1].id].fee = 20
  /\ trace[selectedWallets[3].id].fee = 20

\* C19: in Scenario A the second wallet is passed over (no record, no
\* submission, no entry), and whatever is recorded, submitted or reported
\* for the first wallet is 0.497 and for the third 1.997, each wallet whose
\* record was created being submitted once.
C19_ScenarioA ==
  ScenarioA =>
    LET w1 == selectedWallets[1].id
        w2 == selectedWallets[2].id
        w3 == selectedWallets[3].id
        sends(w, a) ==
          /\ \A i \in RecordsOf(w) : transactions[i].amount = a
          /\ \A k \in DOMAIN chain :
               chain[k].from = wallets[w].address => chain[k].amount = a
          /\ \A k \in EntriesOf(results, w) :
               results[k].status = "confirmed" => results[k].amount = a
          /\ Cardinality(RecordsOf(w)) <= 1
          /\ RecordsOf(w) # {} => trace[w].submits = 1
          /\ Cardinality(EntriesOf(results, w)) = 1
    IN /\ RecordsOf(w2) = {}
       /\ trace[w2].submits = 0
       /\ trace[w2].fee = None
       /\ EntriesOf(results, w2) = {}
       /\ sends(w1, 4970)
       /\ sends(w3, 19970)

\* Scenario A with both transfers confirmed: 0.497 + 1.997 in total
C19_Witness ==
  /\ ScenarioA
  /\ Responded
  /\ Len(response.results) = 2
  /\ response.results[1].status = "confirmed"
  /\ response.results[1].amount = 4970
  /\ response.results[2].status = "confirmed"
  /\ response.results[2].amount = 19970
  /\ response.totalAmount = 24940
  /\ Len(chain) = 2

(* ------------------------------- C18 ----------------------------------- *)
\* balance - feeEstimate - 0.001 in millionths, as a decimal
ExactAmount == calc.balance - calc.gasEstimate - 1000
\* the wallet got as far as its amount
HasAmount == calc.stage \in {"record", "send", "submitted", "thrown"}

\* C18: a wallet above the dust threshold is skipped exactly when
\* balance - feeEstimate - 0.001 is not positive; otherwise the amount
\* string that is recorded and handed to the transfer is exactly that
\* decimal, it is positive and below the balance, and the transfer call
\* can read it.
C18_AmountIsExact ==
  /\ calc.stage = "skipped" =>
       calc.balance <= 1000 \/ (calc.gasEstimate # None /\ ExactAmount <= 0)
  /\ HasAmount =>
       /\ calc.balance > 1000
       /\ ExactAmount > 0
       /\ greater(calc.amount, parseFloat(0))
       /\ greater(parseFloat(calc.balance), calc.amount)
       /\ printsAs(calc.amount, ExactAmount)
       /\ calc.stage # "thrown"

SubmittedBy(rs) ==
  SelectSeq(conc.mempool, LAMBDA id : conc.rows[id].request \in rs)

\* the rows were broadcast in the order in which they were created
InCreationOrder(ids) ==
  \A i, j \in DOMAIN ids : i < j => ids[i] < ids[j]

\* C13 as stated, over all requests: at most one transfer is in flight at
\* any time and the transfer records were created in the order in which
\* their transfers were submitted.
C13_OneInFlightOverall ==
  /\ Cardinality(conc.flying) <= 1
  /\ InCreationOrder(SubmittedBy(Requests))

\* C13 (amended): within each mass-send request at most one transfer is in
\* flight, the balance lookup of a wallet is awaited only when the turns of
\* all earlier wallets of that request are over and none of its transfers is
\* in flight, and the request's transfer records were created in the order
\* in which their transfers were submitted; this holds while another request
\* of the same user runs over the same wallets.
C13_SequentialPerRequest ==
  \A r \in Requests :
    LET a == conc.at[r]
        mine == {id \in conc.flying : conc.rows[id].request = r} IN
    /\ Cardinality(mine) <= 1
    /\ Cardinality(a.open) <= 1
    /\ a.pc = "getBalance"
         => /\ mine = {}
            /\ a.open = {a.selectedWallets[a.idx].id}
            /\ \A i \in 1..(a.idx - 1) :
                 a.selectedWallets[i].id \notin a.open
    /\ InCreationOrder(SubmittedBy({r}))

\* both requests have a transfer from the same wallet in flight, and the
\* record created second was submitted first
C13_Witness ==
  /\ Cardinality(conc.flying) = 2
  /\ \E i, j \in conc.flying :
       /\ i < j
       /\ conc.rows[i].request # conc.rows[j].request
       /\ conc.rows[i].fromWalletId = conc.rows[j].fromWalletId
       /\ conc.mempool = <<j, i>>

(* ------------------------------- C21 ----------------------------------- *)
\* the strings encrypt can return
Encrypted == {encrypt(text, iv) : text \in RawKeys, iv \in IVs}

\* C21: decrypt fails, and returns no value, for every input that is not a
\* string produced by encrypt, an input with an altered auth tag included.
C21_DecryptRejectsAltered ==
  \A p \in DOMAIN vault.probes :
    vault.probes[p].data \notin Encrypted
      => vault.probes[p].out = DecryptError

(* ------------------------------- C22 ----------------------------------- *)
\* C22: every stored wallet's address is the address derived from its
\* decrypted stored key, and address and encrypted key are those its import
\* stored, whatever imports, balance refreshes, deletes and transfers
\* followed.
C22_AddressIsOfStoredKey ==
  \A w \in store.wallets :
    /\ w.address =
         getAddressFromPrivateKey(decrypt(w.encryptedPrivateKey))
    /\ w.address = store.imported[w.id].address
    /\ w.encryptedPrivateKey = store.imported[w.id].encryptedPrivateKey

\* a wallet whose balance was refreshed since its import and which a
\* settled transfer refers to, another wallet having been deleted
C22_Witness ==
  /\ store.imports > Cardinality(store.wallets)
  /\ \E w \in store.wallets :
       /\ w.balance # store.imported[w.id].balance
       /\ \E i \in DOMAIN store.transactions :
            /\ store.transactions[i].fromWalletId = w.id
            /\ store.transactions[i].status = "confirmed"

C24_DuplicatesIgnored ==
  req.kind = "mass_send" =>
    \A w \in Wallets :
      /\ Cardinality({k \in DOMAIN selectedWallets :
                        selectedWallets[k].id = w}) <= 1
      /\ trace[w].balanceQueries <= 1
      /\ trace[w].submits <= 1
      /\ Cardinality({i \in DOMAIN transactions :
                        transactions[i].fromWalletId = w}) <= 1

\* a request listing one of the owner's wallets twice has been answered,
\* the wallet having been looked up, recorded and submitted once
C24_Witness ==
  /\ req.kind = "mass_send"
  /\ pc = "done"
  /\ \E w \in Wallets :
       /\ req.walletIds = <<w, w>>
       /\ Len(selectedWallets) = 1
       /\ trace[w].balanceQueries = 1
       /\ trace[w].submits = 1
       /\ Cardinality({i \in DOMAIN transactions :
                         transactions[i].fromWalletId = w}) = 1

(* ------------------------------- C25 ----------------------------------- *)
\* the transfer records of wallet w for this destination and amount
RecordsFor(w, toAddress, amount) ==
  {i \in DOMAIN transactions :
     /\ transactions[i].type = "mass_send"
     /\ transactions[i].fromWalletId = w
     /\ transactions[i].toAddress = toAddress
     /\ transactions[i].amount = amount}

\* C25: in a mass-send, when sendTransaction is about to be called for a
\* wallet, the request's own pending record for that wallet, destination
\* and amount exists; every wallet with a submission and every transfer on
\* the network has such a record; a wallet whose record could not be
\* created has no submission.
C25_RecordBeforeSubmit ==
  req.kind = "mass_send" =>
    /\ pc = "ms_send" =>
         /\ local.transaction \in
              RecordsFor(selectedWallets[idx].id, req.toAddress,
                         local.amountToSend)
         /\ transactions[local.transaction].status = "pending"
    /\ \A w \in Wallets :
         trace[w].submits > 0 =>
           \E i \in DOMAIN transactions : transactions[i].fromWalletId = w
    /\ \A c \in DOMAIN chain :
         RecordsFor(chain[c].from, chain[c].to, chain[c].amount) # {}

\* the record of one wallet could not be created and nothing was submitted
\* for it; the next wallet's transfer went out with its record in place
C25_Witness ==
  /\ req.kind = "mass_send"
  /\ pc = "done"
  /\ Len(selectedWallets) = 2
  /\ Len(results) = 2
  /\ results[1].status = "failed"
  /\ results[1].error = "insert failed"
  /\ trace[selectedWallets[1].id].submits = 0
  /\ Len(chain) = 1
  /\ chain[1].from = selectedWallets[2].address
  /\ RecordsFor(selectedWallets[2].id, req.toAddress, chain[1].amount) # {}

(* ------------------------------- C26 ----------------------------------- *)
\* C26: for every network of networkEnum, when the network answers, the
\* getBalance call of mass-send returns the balance the address holds in
\* the network's native asset.
C26_NativeBalanceReturned ==
  lookup.stage = "answered" /\ lookup.live # RpcError
    => lookup.out = lookup.live

(* ------------------------------- C27 ----------------------------------- *)
\* sendTransaction was called for wallet w and returned a hash
SendReturned(w) == trace[w].submits > 0 /\ trace[w].sendThrows = 0

\* C27: in a mass-send, no wallet for which sendTransaction returned
\* successfully has a failed result entry.
C27_FailedMeansNotSent ==
  req.kind = "mass_send" =>
    \A k \in DOMAIN results :
      results[k].status = "failed" => ~SendReturned(results[k].walletId)

(* ------------------------------- C28 ----------------------------------- *)
\* the wallets that are not the requesting user's
Foreign == {w \in Wallets : wallets[w].userId # req.userId}

\* C28: whatever a send or mass-send request of user u names, no wallet of
\* another user has its balance fetched, its key decrypted, a transfer
\* record created or a transfer submitted.
C28_OwnerIsolation ==
  \A w \in Foreign :
    /\ trace[w] = NoTrace
    /\ \A i \in DOMAIN transactions : transactions[i].fromWalletId # w
    /\ \A c \in DOMAIN chain : chain[c].from # wallets[w].address

\* a mass-send that named another user's wallet next to an own one has been
\* answered: the own wallet's transfer went out, the other was not touched
C28_Witness ==
  /\ req.kind = "mass_send"
  /\ pc = "done"
  /\ \E w \in Foreign : includes(req.walletIds, w) /\ trace[w] = NoTrace
  /\ Len(chain) = 1
  /\ \E w \in Wallets \ Foreign :
       includes(req.walletIds, w) /\ chain[1].from = wallets[w].address

(* ------------------------------- C29 ----------------------------------- *)
\* C29: the network stored on the operation record of a mass-send is the
\* network of every transfer record the request created and of every
\* transfer it submitted.
C29_OperationNetworkIsMembers ==
  req.kind = "mass_send" =>
    \A o \in DOMAIN operations :
      /\ \A i \in DOMAIN transactions :
           transactions[i].network = operations[o].network
      /\ \A c \in DOMAIN chain : chain[c].network = operations[o].network

(* ------------------------------- C30 ----------------------------------- *)
\* the wallets of the requesting user
Owned == {w \in Wallets : wallets[w].userId = req.userId}
\* the request body has a walletIds field: an array, or null
CarriesWalletIds == req.hasWalletIds \/ req.nullWalletIds

\* whether the mass-send selected exactly the wallets of set
SelectionIs(set) ==
  /\ Started => SelectedIds = set
  /\ Finished /\ response.code = 400 => set = {}

====
